---- MODULE Spec2Model ----
(***************************************************************************)
(* State-machine model of the POST /intake handler of src/server.js        *)
(* (lines 170-291): request validation, the Analyst provider call, the     *)
(* termination-marker decision, the Manager provider call, JSON.parse of   *)
(* the report, case-number generation, the Firestore write, the e-mail     *)
(* notification and the responses; of the POST /chat handler (lines        *)
(* 76-165) with its snippet retrieval; of the start of the process (lines  *)
(* 31-62 and 294-297) and GET /; of POST /api/chat of                      *)
(* src/unnamed/part_000; and of POST /verify-developer, which no source    *)
(* file holds and which follows the written specification.  Node runs a    *)
(* handler without interruption between two awaits, so each action is one  *)
(* such segment.                                                            *)
(***************************************************************************)
EXTENDS Integers, Sequences, FiniteSets, TLC

\* ------------------------------------------------------------------ bounds
\* Requests in flight over the life of the process.  Request 1 ranges over
\* every input and every outcome of the external calls listed below; the
\* others run beside it with the conversations of BodiesBeside and the
\* outcomes of the *Beside sets.
Requests == {1, 2}

\* /chat requests over the life of the process.
ChatRequests == {"c1"}

\* Longest Analyst reply, in tokens.
MaxReplyLen == 2

\* ------------------------------------------------------------- JS values
\* A JavaScript value that occurs in a message or a report field:
\* t is its type, v its characters/elements (tokens).
Undefined == [t |-> "undefined", v |-> <<>>]
Null == [t |-> "null", v |-> <<>>]
Str(s) == [t |-> "string", v |-> s]
Arr(s) == [t |-> "array", v |-> s]
Num == [t |-> "number", v |-> <<>>]

\* JavaScript truthiness of such a value (used by `!conversation`).
Truthy(x) ==
    CASE x.t = "undefined" -> FALSE
      [] x.t = "null" -> FALSE
      [] x.t = "string" -> x.v # <<>>
      [] OTHER -> TRUE

\* ---------------------------------------------------------- conversation
\* An element of the conversation array of the request body.
Msg(role, content) == [t |-> "object", role |-> Str(<<role>>), content |-> Str(<<content>>)]
NullElem == [t |-> "null", role |-> Undefined, content |-> Undefined]
NumElem == [t |-> "number", role |-> Undefined, content |-> Undefined]

\* req.body.conversation: a JS value whose items (when an array) are elements.
ConvUndefined == [t |-> "undefined", items |-> <<>>]
ConvString == [t |-> "string", items |-> <<>>]
ConvArray(items) == [t |-> "array", items |-> items]

U(c) == Msg("user", c)
A(c) == Msg("assistant", c)

\* The request bodies the model posts.
Bodies ==
    { ConvUndefined,
      ConvString,
      ConvArray(<<>>),
      ConvArray(<<NullElem>>),
      ConvArray(<<NumElem>>),
      ConvArray(<<A("hello")>>),
      ConvArray(<<U("faq bot")>>),
      ConvArray(<<U("faq bot"), A("q1"), U("a1"), A("q2"), U("a2"), A("q3"), U("a3")>>) }

BodiesBeside == {ConvArray(<<U("faq bot")>>), ConvArray(<<NullElem>>)}

BodiesOf(r) == IF r = 1 THEN Bodies ELSE BodiesBeside

\* Number of analyst (assistant) turns of a conversation.
AnalystTurns(conv) ==
    Cardinality({i \in 1..Len(conv.items) :
                    conv.items[i].role = Str(<<"assistant">>)})

\* ------------------------------------------------------------ text search
\* Mutant of Includes: String.prototype.endsWith, the marker only as a suffix.
IncludesAsSuffix(s, sub) ==
    Len(sub) <= Len(s) /\ SubSeq(s, Len(s) - Len(sub) + 1, Len(s)) = sub

\* Mutant of Includes: receiver and argument swapped.
IncludesSwapped(s, sub) ==
    \E i \in 1..(Len(sub) - Len(s) + 1) : SubSeq(sub, i, i + Len(s) - 1) = s

\* String.prototype.includes: sub occurs in s at some position.
Includes(s, sub) ==
    \E i \in 1..(Len(s) - Len(sub) + 1) : SubSeq(s, i, i + Len(sub) - 1) = sub

END_OF_INTAKE == <<"[END_OF_INTAKE]">>

RECURSIVE SeqsUpTo(_, _)
SeqsUpTo(S, n) ==
    IF n = 0 THEN {<<>>}
    ELSE LET shorter == SeqsUpTo(S, n - 1)
         IN shorter \cup {Append(s, x) : s \in shorter, x \in S}

\* Texts the Analyst model may return.
AnalystTexts == SeqsUpTo({"question", "[END_OF_INTAKE]"}, MaxReplyLen)

\* ------------------------------------------------------ completion provider
\* What `await fetch(...)` followed by `await response.json()` can produce:
\* the fetch rejects ("transport"), the status is not ok ("status"), the body
\* is not JSON ("body"), or a payload arrives.  A payload either has no
\* `choices` array at all, or `choices[0]?.message?.content` evaluates to
\* content (undefined when choices is empty or the message has no content).
Failure(kind) == [result |-> kind, hasChoices |-> FALSE, content |-> Undefined]
NoChoices == [result |-> "payload", hasChoices |-> FALSE, content |-> Undefined]
Payload(content) == [result |-> "payload", hasChoices |-> TRUE, content |-> content]

AnalystOutcomes ==
    {Failure("transport"), Failure("status"), Failure("body"), NoChoices,
     Payload(Undefined), Payload(Null)}
    \cup {Payload(Str(s)) : s \in AnalystTexts}

AnalystOutcomesBeside ==
    {Failure("status"), Payload(Str(<<"question">>)), Payload(Str(END_OF_INTAKE))}

AnalystOutcomesOf(r) == IF r = 1 THEN AnalystOutcomes ELSE AnalystOutcomesBeside

\* ------------------------------------------------------------ JSON texts
\* The text the Manager model returns, by its JSON form; an object text is
\* its sequence of members.
Member(k, val) == [key |-> k, value |-> val]
JsonText(form, members) == [form |-> form, members |-> members]

pName == Member("projectName", Str(<<"FAQ bot">>))
pSummary == Member("projectSummary", Str(<<"summary">>))
kFeatures == Member("keyFeatures", Arr(<<"feature">>))
eTimeline == Member("estimatedTimeline", Str(<<"2-3 weeks">>))
\* An interviewDate that echoes the finalize date, and one the model invents.
iDate == Member("interviewDate", Str(<<"2", "0", "2", "4", "-", "0", "1", "-", "0", "5">>))
iDateInvented == Member("interviewDate", Str(<<"1", "9", "9", "9", "-", "1", "2", "-", "3", "1">>))

ReportKeys ==
    {"projectName", "projectSummary", "keyFeatures", "estimatedTimeline", "interviewDate"}

ManagerTexts ==
    { JsonText("garbage", <<>>),
      JsonText("null", <<>>),
      JsonText("number", <<>>),
      \* the four keys the Manager prompt asks for (lines 215-219)
      JsonText("object", <<pName, pSummary, kFeatures, eTimeline>>),
      JsonText("object", <<pName, pSummary, kFeatures, eTimeline, iDate>>),
      JsonText("object", <<pName, pSummary, kFeatures, eTimeline, iDateInvented>>),
      JsonText("object", <<Member("projectName", Str(<<>>)), pSummary, kFeatures, eTimeline, iDate>>),
      JsonText("object", <<pName, pSummary, Member("keyFeatures", Arr(<<>>)), eTimeline, iDate>>),
      JsonText("object", <<pName, pSummary, Member("keyFeatures", Str(<<"feature">>)), eTimeline, iDate>>),
      JsonText("object", <<pName, pSummary, eTimeline, iDate>>),
      \* a report that brings a caseNumber of its own
      JsonText("object", <<pName, pSummary, kFeatures, eTimeline,
                           Member("caseNumber", Str(<<"S", "A", "-", "1">>))>>),
      JsonText("object", <<>>) }

\* Manager content: undefined, null, or a string holding a JSON text.
MText(text) == [t |-> "string", text |-> text]
MUndefined == [t |-> "undefined", text |-> JsonText("garbage", <<>>)]
MNull == [t |-> "null", text |-> JsonText("garbage", <<>>)]

MFailure(kind) == [result |-> kind, hasChoices |-> FALSE, content |-> MUndefined]
MNoChoices == [result |-> "payload", hasChoices |-> FALSE, content |-> MUndefined]

ManagerOutcomes ==
    {MFailure("transport"), MFailure("status"), MFailure("body"), MNoChoices,
     Payload(MUndefined), Payload(MNull)}
    \cup {Payload(MText(x)) : x \in ManagerTexts}

ManagerOutcomesBeside ==
    {MFailure("status"),
     Payload(MText(JsonText("object", <<pName, pSummary, kFeatures, eTimeline>>))),
     Payload(MText(JsonText("object", <<pName, pSummary, kFeatures, eTimeline, iDate>>)))}

ManagerOutcomesOf(r) == IF r = 1 THEN ManagerOutcomes ELSE ManagerOutcomesBeside

\* A parsed JSON value: its type and, for an object, its fields.
NoFields == [k \in {} |-> Undefined]
Parsed(t, fields) == [t |-> t, fields |-> fields]
NoReport == Parsed("undefined", NoFields)

\* The value of the last member with key k (JSON.parse keeps the last).
LastValue(members, k) ==
    LET idx == {i \in 1..Len(members) : members[i].key = k}
        last == CHOOSE i \in idx : \A j \in idx : j <= i
    IN members[last].value

\* JSON.parse(content): the argument is first converted to a string, so
\* undefined reads "undefined" (a SyntaxError) and null reads "null".
JSONParse(content) ==
    LET text == CASE content.t = "undefined" -> JsonText("garbage", <<>>)
                  [] content.t = "null" -> JsonText("null", <<>>)
                  [] OTHER -> content.text
    IN CASE text.form = "garbage" -> [ok |-> FALSE, value |-> NoReport]
         [] text.form = "null" -> [ok |-> TRUE, value |-> Parsed("null", NoFields)]
         [] text.form = "number" -> [ok |-> TRUE, value |-> Parsed("number", NoFields)]
         [] OTHER ->
              [ok |-> TRUE,
               value |-> Parsed("object",
                           [k \in {text.members[i].key : i \in 1..Len(text.members)}
                               |-> LastValue(text.members, k)])]

\* report.k : property access (the caller has excluded null and undefined).
Get(report, k) ==
    IF report.t = "object" /\ k \in DOMAIN report.fields
    THEN report.fields[k] ELSE Undefined

\* ------------------------------------------------------------ case number
\* new Date() at finalize time: getFullYear(), getMonth() (0-based), getDate().
Dates == {[year |-> 2024, month |-> 0, date |-> 5]}

\* Math.random(), by the digits of its base-36 fraction (none for 0).
Randoms ==
    { <<"i">>,
      <<"k", "f", "9", "x", "2", "m", "q", "1">> }

DigitChars == <<"0", "1", "2", "3", "4", "5", "6", "7", "8", "9">>

\* Number.prototype.toString() of a natural number.
RECURSIVE NumToString(_)
NumToString(n) ==
    IF n < 10 THEN <<DigitChars[n + 1]>>
    ELSE Append(NumToString(n \div 10), DigitChars[(n % 10) + 1])

\* String.prototype.padStart(len, ch).
RECURSIVE PadStart(_, _, _)
PadStart(s, len, ch) ==
    IF Len(s) >= len THEN s ELSE PadStart(<<ch>> \o s, len, ch)

\* (x).toString(36) of a Math.random() result.
ToString36(rnd) ==
    IF rnd = <<>> THEN <<"0">> ELSE <<"0", ".">> \o rnd

\* String.prototype.substr(start, length).
Substr(s, start, length) ==
    LET last == IF start + length < Len(s) THEN start + length ELSE Len(s)
    IN SubSeq(s, start + 1, last)

LowerLetters ==
    <<"a", "b", "c", "d", "e", "f", "g", "h", "i", "j", "k", "l", "m",
      "n", "o", "p", "q", "r", "s", "t", "u", "v", "w", "x", "y", "z">>
UpperLetters ==
    <<"A", "B", "C", "D", "E", "F", "G", "H", "I", "J", "K", "L", "M",
      "N", "O", "P", "Q", "R", "S", "T", "U", "V", "W", "X", "Y", "Z">>

\* String.prototype.toUpperCase().
ToUpperCase(s) ==
    [i \in 1..Len(s) |->
        IF \E j \in 1..26 : LowerLetters[j] = s[i]
        THEN UpperLetters[CHOOSE j \in 1..26 : LowerLetters[j] = s[i]]
        ELSE s[i]]

\* The template literal of line 242.
CaseNumber(now, rnd) ==
    <<"S", "A", "-">>
    \o NumToString(now.year)
    \o PadStart(NumToString(now.month + 1), 2, "0")
    \o PadStart(NumToString(now.date), 2, "0")
    \o <<"-">>
    \o ToUpperCase(Substr(ToString36(rnd), 2, 6))

NoCaseNumber == <<>>

NoDate == [year |-> 0, month |-> 0, date |-> 0]

\* The finalize-time timestamp string the specification has the server stamp
\* into the report (YYYY-MM-DD).
InterviewStamp(now) ==
    NumToString(now.year)
    \o <<"-">> \o PadStart(NumToString(now.month + 1), 2, "0")
    \o <<"-">> \o PadStart(NumToString(now.date), 2, "0")

\* --------------------------------------------------------- store and mail
ServerTimestamp == [t |-> "serverTimestamp", v |-> <<>>]

\* { ...report } : the own enumerable properties of the parsed value.
Spread(report) == IF report.t = "object" THEN report.fields ELSE NoFields

\* Mutant of CaseRecord: the report is spread last, so its keys win.
CaseRecordReportWins(report, cn, conv) ==
    LET own == Spread(report)
    IN [k \in (DOMAIN own) \cup {"caseNumber", "timestamp", "fullTranscript"} |->
            IF k \in DOMAIN own THEN own[k]
            ELSE CASE k = "caseNumber" -> Str(cn)
                   [] k = "timestamp" -> ServerTimestamp
                   [] OTHER -> Arr(conv.items)]

\* The document handed to doc(caseNumber).set() (lines 246-251); the three
\* added keys come last and win over same-named report keys.
CaseRecord(report, cn, conv) ==
    LET own == Spread(report)
    IN [k \in (DOMAIN own) \cup {"caseNumber", "timestamp", "fullTranscript"} |->
            CASE k = "caseNumber" -> Str(cn)
              [] k = "timestamp" -> ServerTimestamp
              [] k = "fullTranscript" -> Arr(conv.items)
              [] OTHER -> own[k]]

\* ${x} inside a template literal.
Interp(x) ==
    CASE x.t = "undefined" -> <<"undefined">>
      [] x.t = "null" -> <<"null">>
      [] OTHER -> x.v

\* Building emailBody (lines 255-269) throws a TypeError when report is null
\* (report.projectName) or report.keyFeatures has no map method.
EmailThrows(report) ==
    \/ report.t \in {"null", "undefined"}
    \/ Get(report, "keyFeatures").t # "array"

\* Mutant of Email: the subject takes the case number from the report.
EmailReportCaseNumber(report, cn, conv) ==
    [to |-> "sakissystems@gmail.com",
     subject |-> [projectName |-> Interp(Get(report, "projectName")),
                  caseNumber |-> Interp(Get(report, "caseNumber"))],
     html |-> [caseNumber |-> cn,
               projectName |-> Interp(Get(report, "projectName")),
               projectSummary |-> Interp(Get(report, "projectSummary")),
               keyFeatures |-> Get(report, "keyFeatures").v,
               estimatedTimeline |-> Interp(Get(report, "estimatedTimeline")),
               transcript |-> [i \in 1..Len(conv.items) |->
                    [speaker |-> IF conv.items[i].role = Str(<<"user">>)
                                 THEN "Client" ELSE "Analyst",
                     content |-> Interp(conv.items[i].content)]]]]

\* The message handed to transporter.sendMail() (lines 271-276).
Email(report, cn, conv) ==
    [to |-> "sakissystems@gmail.com",
     subject |-> [projectName |-> Interp(Get(report, "projectName")), caseNumber |-> cn],
     html |-> [caseNumber |-> cn,
               projectName |-> Interp(Get(report, "projectName")),
               projectSummary |-> Interp(Get(report, "projectSummary")),
               keyFeatures |-> Get(report, "keyFeatures").v,
               estimatedTimeline |-> Interp(Get(report, "estimatedTimeline")),
               transcript |-> [i \in 1..Len(conv.items) |->
                    [speaker |-> IF conv.items[i].role = Str(<<"user">>)
                                 THEN "Client" ELSE "Analyst",
                     content |-> Interp(conv.items[i].content)]]]]

\* --------------------------------------------------------- knowledge base
\* Texts of this section are sequences of characters.

\* String.prototype.toLowerCase().
ToLowerCase(s) ==
    [i \in 1..Len(s) |->
        IF \E j \in 1..26 : UpperLetters[j] = s[i]
        THEN LowerLetters[CHOOSE j \in 1..26 : UpperLetters[j] = s[i]]
        ELSE s[i]]

\* Characters the class \s matches.
Whitespace == {" ", "\t", "\n"}

\* String.prototype.split(/\s+/): the pieces between the runs of whitespace;
\* a leading or trailing run leaves an empty piece, "" splits into [""].
RECURSIVE SplitFrom(_, _, _, _, _)
SplitFrom(s, i, pieces, piece, inRun) ==
    IF i > Len(s) THEN Append(pieces, piece)
    ELSE IF s[i] \in Whitespace
    THEN IF inRun
         THEN SplitFrom(s, i + 1, pieces, piece, TRUE)
         ELSE SplitFrom(s, i + 1, Append(pieces, piece), <<>>, TRUE)
    ELSE SplitFrom(s, i + 1, pieces, Append(piece, s[i]), FALSE)

Split(s) == SplitFrom(s, 1, <<>>, <<>>, FALSE)

\* An entry of 400QA2.json, and an entry with its score.
Item(q, a) == [Q |-> q, A |-> a]
Scored(item, score) == [Q |-> item.Q, A |-> item.A, score |-> score]

\* What JSON.parse(fileContent) of line 57 can give (the file is not part
\* of the sources): an array of entries, or some other JSON value.
QaArray(items) == [t |-> "array", items |-> items]
QaObject == [t |-> "object", items |-> <<>>]

\* `let qaData = []` of line 53, kept when the file cannot be read or parsed.
QaEmpty == QaArray(<<>>)

QaSmall ==
    QaArray(<<Item(Str(<<"W", "h", "a", "t", " ", "i", "s", " ", "a", "u", "t", "o", "m", "a", "t", "i", "o", "n">>), Str(<<"s1">>)),
              Item(Str(<<"P", "r", "i", "c", "i", "n", "g">>), Str(<<"s2">>))>>)

\* More than `count` entries match "automation"; two entries lack a field.
QaLarge ==
    QaArray(<<
       Item(Str(<<"A", "u", "t", "o", "m", "a", "t", "i", "o", "n", " ", "w", "o", "r", "k", "f", "l", "o", "w">>), Str(<<"a1">>)),
       Item(Str(<<"w", "o", "r", "k", "f", "l", "o", "w">>), Str(<<"a2">>)),
       Item(Str(<<"A", "U", "T", "O", "M", "A", "T", "I", "O", "N">>), Str(<<"a3">>)),
       Item(Str(<<"p", "r", "i", "c", "i", "n", "g">>), Str(<<"a4">>)),
       Item(Str(<<"a", "u", "t", "o", "m", "a", "t", "i", "o", "n", " ", "w", "o", "r", "k", "f", "l", "o", "w">>), Str(<<>>)),
       Item(Str(<<"t", "o", "o", "l", "s", " ", "f", "o", "r", " ", "w", "o", "r", "k", "f", "l", "o", "w", " ", "a", "u", "t", "o", "m", "a", "t", "i", "o", "n">>), Str(<<"a5">>)),
       Item(Undefined, Str(<<"no question">>)),
       Item(Str(<<"a", "u", "t", "o">>), Str(<<"a6">>)),
       Item(Str(<<"a", "u", "t", "o", "m", "a", "t", "i", "o", "n", " ", "o", "n", "e">>), Str(<<"a7">>)),
       Item(Str(<<"a", "u", "t", "o", "m", "a", "t", "i", "o", "n", " ", "t", "w", "o">>), Str(<<"a8">>)),
       Item(Str(<<"a", "u", "t", "o", "m", "a", "t", "i", "o", "n", " ", "s", "i", "x">>), Str(<<"a9">>)),
       Item(Str(<<"W", "o", "r", "k", "f", "l", "o", "w", " ", "a", "u", "t", "o", "m", "a", "t", "i", "o", "n">>), Str(<<"a10">>))>>)

\* An entry whose Q is a number.
QaNumericQ ==
    QaArray(<<Item(Num, Str(<<"n1">>)), Item(Str(<<"w", "o", "r", "k", "f", "l", "o", "w">>), Str(<<"n2">>))>>)

\* Outcomes of lines 54-61: the file is missing, is not JSON, or parses.
KbFiles ==
    {[loaded |-> FALSE, data |-> QaEmpty],
     [loaded |-> TRUE, data |-> QaSmall],
     [loaded |-> TRUE, data |-> QaLarge],
     [loaded |-> TRUE, data |-> QaNumericQ],
     [loaded |-> TRUE, data |-> QaObject]}

\* Lines 96-101: one point for every query word the question contains.
Score(queryWords, question) ==
    Cardinality({i \in 1..Len(queryWords) : Includes(ToLowerCase(question), queryWords[i])})

\* Array.prototype.sort((a, b) => b.score - a.score), which is stable:
\* x goes behind every entry whose score is not smaller.
RECURSIVE SortByScore(_)
SortByScore(items) ==
    IF items = <<>> THEN <<>>
    ELSE LET sorted == SortByScore(SubSeq(items, 1, Len(items) - 1))
             x == items[Len(items)]
             ahead == Cardinality({i \in 1..Len(sorted) : sorted[i].score >= x.score})
         IN SubSeq(sorted, 1, ahead) \o <<x>> \o SubSeq(sorted, ahead + 1, Len(sorted))

\* Array.prototype.slice(0, count).
Slice(items, count) ==
    SubSeq(items, 1, IF count < Len(items) THEN count ELSE Len(items))

\* The default of the parameter `count` (line 90).
DefaultCount == 7

\* Lines 91-95 throw a TypeError when query has no toLowerCase, data has no
\* filter, or an entry that passes the first filter has a Q without
\* toLowerCase.
SnippetsThrow(query, data) ==
    \/ query.t # "string"
    \/ data.t # "array"
    \/ \E i \in 1..Len(data.items) :
          /\ Truthy(data.items[i].Q) /\ Truthy(data.items[i].A)
          /\ data.items[i].Q.t # "string"

\* Mutant of getRelevantSnippets: the entries are not sorted.
getRelevantSnippetsUnsorted(query, data, count) ==
    LET queryWords == Split(ToLowerCase(query.v))
        complete == SelectSeq(data.items, LAMBDA item : Truthy(item.Q) /\ Truthy(item.A))
        scoredItems == [i \in 1..Len(complete) |->
                          Scored(complete[i], Score(queryWords, complete[i].Q.v))]
        matching == SelectSeq(scoredItems, LAMBDA item : item.score > 0)
    IN Slice(matching, count)

\* getRelevantSnippets (lines 90-108), for arguments that do not throw.
getRelevantSnippets(query, data, count) ==
    LET queryWords == Split(ToLowerCase(query.v))
        complete == SelectSeq(data.items, LAMBDA item : Truthy(item.Q) /\ Truthy(item.A))
        scoredItems == [i \in 1..Len(complete) |->
                          Scored(complete[i], Score(queryWords, complete[i].Q.v))]
        matching == SelectSeq(scoredItems, LAMBDA item : item.score > 0)
    IN Slice(SortByScore(matching), count)

\* ------------------------------------------------------------------ state
VARIABLES
    envKey,        \* process.env.OPENAI_API_KEY
    pc,            \* per request: the await the handler is suspended at
    conversation,  \* per request: req.body.conversation
    analystData,   \* per request: outcome of the Analyst provider call
    managerData,   \* per request: outcome of the Manager provider call
    report,        \* per request: JSON.parse(reportJsonString)
    finalizedAt,   \* per request: `now`, the new Date() of line 241
    caseNumber,    \* per request: the generated case number
    calls,         \* per request: how often each external call was made
    ext,           \* per request: how the store write and the mail ended
    response,      \* per request: the HTTP response sent
    store,         \* collection 'intakeReports': case number -> document
    outbox,        \* mails the transporter accepted
    chatPc,        \* per /chat request: the await the handler is suspended at
    chatMessage,   \* per /chat request: req.body.message
    chatData,      \* per /chat request: outcome of the provider call
    chatCalls,     \* per /chat request: how often the provider was called
    chatResponse,  \* per /chat request: the HTTP response sent
    relevantSnippets, \* per /chat request: what getRelevantSnippets returned
    proc,          \* the server process: "starting", "listening" or "crashed"
    firebaseApp,   \* whether admin.initializeApp() registered the default app
    emailEnv,      \* whether EMAIL_USER and EMAIL_PASS are in the environment
    qaData,        \* the knowledge base
    homeResponse,  \* what GET / was answered
    apiPc,         \* the /api/chat request: the await the handler is suspended at
    apiHistory,    \* the /api/chat request: req.body.history
    apiData,       \* the /api/chat request: outcome of the provider call
    apiResponse,   \* the /api/chat request: the HTTP response sent
    devSecret,     \* the developer shared secret of the environment
    verifyPc,      \* per /verify-developer request: "idle" or "done"
    verifyPassword, \* per /verify-developer request: req.body.password
    verifyResponse \* per /verify-developer request: the HTTP response sent

chatVars == <<chatPc, chatMessage, chatData, chatCalls, chatResponse, relevantSnippets>>
bootVars == <<firebaseApp, emailEnv, qaData, homeResponse>>
apiVars == <<apiPc, apiHistory, apiData, apiResponse>>
verifyVars == <<devSecret, verifyPc, verifyPassword, verifyResponse>>

vars ==
    <<envKey, pc, conversation, analystData, managerData, report, finalizedAt,
      caseNumber, calls, ext, response, store, outbox, chatVars, proc, bootVars,
      apiVars, verifyVars>>

\* Line 14: the environment value, or else the literal fallback.
OPENAI_API_KEY ==
    IF Truthy(envKey) THEN envKey ELSE Str(<<"sk-proj">>)

NotCalled == [result |-> "none", hasChoices |-> FALSE, content |-> Undefined]
MNotCalled == [result |-> "none", hasChoices |-> FALSE, content |-> MUndefined]

NoResponse ==
    [status |-> 0, kind |-> "none", error |-> "", reply |-> Undefined,
     caseNumber |-> NoCaseNumber, report |-> NoReport]

ErrorResponse(status, msg) ==
    [status |-> status, kind |-> "error", error |-> msg, reply |-> Undefined,
     caseNumber |-> NoCaseNumber, report |-> NoReport]

\* Lines 174, 180 and the catch block of lines 287-290.
KeyMissing == ErrorResponse(500, "OpenAI API key is not configured on the server.")
BadRequest == ErrorResponse(400, "Request body must contain a \"conversation\" array.")
InternalError == ErrorResponse(500, "An internal error occurred while processing your request.")

\* Line 284.
InProgress(reply) ==
    [status |-> 200, kind |-> "in-progress", error |-> "", reply |-> reply,
     caseNumber |-> NoCaseNumber, report |-> NoReport]

\* Line 279.
Complete(cn, rep) ==
    [status |-> 200, kind |-> "complete", error |-> "", reply |-> Undefined,
     caseNumber |-> cn, report |-> rep]

\* The /verify-developer requests, and a response not yet sent.
VerifyRequests == {"v1", "v2"}
NoVerifyResponse == [status |-> 0, success |-> FALSE]

\* No request has arrived.
InitRequests ==
    /\ pc = [r \in Requests |-> "idle"]
    /\ conversation = [r \in Requests |-> ConvUndefined]
    /\ analystData = [r \in Requests |-> NotCalled]
    /\ managerData = [r \in Requests |-> MNotCalled]
    /\ report = [r \in Requests |-> NoReport]
    /\ finalizedAt = [r \in Requests |-> NoDate]
    /\ caseNumber = [r \in Requests |-> NoCaseNumber]
    /\ calls = [r \in Requests |-> [analyst |-> 0, manager |-> 0, store |-> 0, notify |-> 0]]
    /\ ext = [r \in Requests |-> [store |-> "none", notify |-> "none"]]
    /\ response = [r \in Requests |-> NoResponse]
    /\ store = [k \in {} |-> NoFields]
    /\ outbox = {}
    /\ chatPc = [c \in ChatRequests |-> "idle"]
    /\ chatMessage = [c \in ChatRequests |-> Undefined]
    /\ chatData = [c \in ChatRequests |-> NotCalled]
    /\ chatCalls = [c \in ChatRequests |-> 0]
    /\ chatResponse = [c \in ChatRequests |-> NoResponse]
    /\ relevantSnippets = [c \in ChatRequests |-> <<>>]
    /\ homeResponse = ""
    /\ apiPc = "idle"
    /\ apiHistory = Undefined
    /\ apiData = NotCalled
    /\ apiResponse = NoResponse
    /\ verifyPc = [v \in VerifyRequests |-> "idle"]
    /\ verifyPassword = [v \in VerifyRequests |-> Undefined]
    /\ verifyResponse = [v \in VerifyRequests |-> NoVerifyResponse]

\* The server is listening, with the store initialised and a knowledge base
\* loaded.
InitListening ==
    /\ emailEnv = TRUE
    /\ proc = "listening"
    /\ firebaseApp = TRUE
    /\ qaData = QaSmall
    /\ InitRequests

\* server.js reads no developer secret.
Init ==
    /\ envKey \in {Undefined, Str(<<"sk-env">>)}
    /\ devSecret = Undefined
    /\ InitListening

\* res.status(..).json(..) ends the handler.
Respond(r, resp) ==
    /\ response' = [response EXCEPT ![r] = resp]
    /\ pc' = [pc EXCEPT ![r] = "done"]

\* Line 179.
InvalidConversation(conv) ==
    \/ ~Truthy([t |-> conv.t, v |-> conv.items])
    \/ conv.t # "array"
    \/ Len(conv.items) = 0

\* conversation.map(msg => ({ role: msg.role, content: msg.content })) reads a
\* property of every element and throws a TypeError on null or undefined.
MapThrows(conv) ==
    \E i \in 1..Len(conv.items) : conv.items[i].t \in {"null", "undefined"}

\* A request arrives: lines 170-203, up to the await of the Analyst fetch.
Intake(r) ==
    /\ proc = "listening"
    /\ pc[r] = "idle"
    /\ \E body \in BodiesOf(r) :
        /\ conversation' = [conversation EXCEPT ![r] = body]
        /\ IF ~Truthy(OPENAI_API_KEY)
           THEN Respond(r, KeyMissing) /\ UNCHANGED calls
           ELSE IF InvalidConversation(body)
           THEN Respond(r, BadRequest) /\ UNCHANGED calls
           ELSE IF MapThrows(body)
           THEN Respond(r, InternalError) /\ UNCHANGED calls
           ELSE /\ calls' = [calls EXCEPT ![r].analyst = @ + 1]
                /\ pc' = [pc EXCEPT ![r] = "analyst"]
                /\ UNCHANGED response
    /\ UNCHANGED <<proc, bootVars, verifyVars, apiVars, envKey, chatVars, finalizedAt, analystData, managerData, report, caseNumber, ext, store, outbox>>

\* Mutant of AnalystReturns: the catch block answers with error.message.
AnalystReturnsLeaksCause(r) ==
    /\ proc = "listening"
    /\ pc[r] = "analyst"
    /\ \E o \in AnalystOutcomesOf(r) :
        /\ analystData' = [analystData EXCEPT ![r] = o]
        /\ IF o.result # "payload" \/ ~o.hasChoices \/ o.content.t # "string"
           THEN Respond(r, ErrorResponse(500, o.result)) /\ UNCHANGED calls
           ELSE IF Includes(o.content.v, END_OF_INTAKE)
           THEN /\ calls' = [calls EXCEPT ![r].manager = @ + 1]
                /\ pc' = [pc EXCEPT ![r] = "manager"]
                /\ UNCHANGED response
           ELSE Respond(r, InProgress(o.content)) /\ UNCHANGED calls
    /\ UNCHANGED <<proc, bootVars, verifyVars, apiVars, envKey, chatVars, finalizedAt, conversation, managerData, report, caseNumber, ext, store, outbox>>

\* The Analyst call returns: lines 205-234 up to the await of the Manager
\* fetch, or lines 281-285, or the catch block.
AnalystReturns(r) ==
    /\ proc = "listening"
    /\ pc[r] = "analyst"
    /\ \E o \in AnalystOutcomesOf(r) :
        /\ analystData' = [analystData EXCEPT ![r] = o]
        /\ IF o.result # "payload" \/ ~o.hasChoices \/ o.content.t # "string"
           THEN Respond(r, InternalError) /\ UNCHANGED calls
           ELSE IF Includes(o.content.v, END_OF_INTAKE)
           THEN /\ calls' = [calls EXCEPT ![r].manager = @ + 1]
                /\ pc' = [pc EXCEPT ![r] = "manager"]
                /\ UNCHANGED response
           ELSE Respond(r, InProgress(o.content)) /\ UNCHANGED calls
    /\ UNCHANGED <<proc, bootVars, verifyVars, apiVars, envKey, chatVars, finalizedAt, conversation, managerData, report, caseNumber, ext, store, outbox>>

\* The Manager call returns: lines 234-251 up to the await of set(), or the
\* catch block.
ManagerReturns(r) ==
    /\ proc = "listening"
    /\ pc[r] = "manager"
    /\ \E o \in ManagerOutcomesOf(r), now \in Dates, rnd \in Randoms :
        LET parsed == JSONParse(o.content)
        IN /\ managerData' = [managerData EXCEPT ![r] = o]
           /\ IF o.result # "payload" \/ ~o.hasChoices \/ ~parsed.ok
              THEN /\ Respond(r, InternalError)
                   /\ UNCHANGED <<report, finalizedAt, caseNumber, calls>>
              ELSE /\ report' = [report EXCEPT ![r] = parsed.value]
                   /\ finalizedAt' = [finalizedAt EXCEPT ![r] = now]
                   /\ caseNumber' = [caseNumber EXCEPT ![r] = CaseNumber(now, rnd)]
                   /\ calls' = [calls EXCEPT ![r].store = @ + 1]
                   /\ pc' = [pc EXCEPT ![r] = "store"]
                   /\ UNCHANGED response
    /\ UNCHANGED <<proc, bootVars, verifyVars, apiVars, envKey, chatVars, conversation, analystData, ext, store, outbox>>

\* Mutant of StoreReturns: the mail is sent whether or not set() succeeded.
StoreReturnsMailAnyway(r) ==
    /\ proc = "listening"
    /\ pc[r] = "store"
    /\ \E ok \in BOOLEAN :
        /\ ext' = [ext EXCEPT ![r].store = IF ok THEN "ok" ELSE "failed"]
        /\ store' = IF ok
                    THEN [k \in (DOMAIN store) \cup {caseNumber[r]} |->
                            IF k = caseNumber[r]
                            THEN CaseRecord(report[r], caseNumber[r], conversation[r])
                            ELSE store[k]]
                    ELSE store
        /\ IF EmailThrows(report[r])
           THEN Respond(r, InternalError) /\ UNCHANGED calls
           ELSE /\ calls' = [calls EXCEPT ![r].notify = @ + 1]
                /\ pc' = [pc EXCEPT ![r] = "mail"]
                /\ UNCHANGED response
    /\ UNCHANGED <<proc, bootVars, verifyVars, apiVars, envKey, chatVars, finalizedAt, conversation, analystData, managerData, report, caseNumber, outbox>>

\* set() settles: lines 253-276 up to the await of sendMail(), or the catch
\* block.
StoreReturns(r) ==
    /\ proc = "listening"
    /\ pc[r] = "store"
    /\ \E ok \in BOOLEAN :
        IF ~ok
        THEN /\ ext' = [ext EXCEPT ![r].store = "failed"]
             /\ Respond(r, InternalError)
             /\ UNCHANGED <<store, calls>>
        ELSE /\ ext' = [ext EXCEPT ![r].store = "ok"]
             /\ store' = [k \in (DOMAIN store) \cup {caseNumber[r]} |->
                            IF k = caseNumber[r]
                            THEN CaseRecord(report[r], caseNumber[r], conversation[r])
                            ELSE store[k]]
             /\ IF EmailThrows(report[r])
                THEN Respond(r, InternalError) /\ UNCHANGED calls
                ELSE /\ calls' = [calls EXCEPT ![r].notify = @ + 1]
                     /\ pc' = [pc EXCEPT ![r] = "mail"]
                     /\ UNCHANGED response
    /\ UNCHANGED <<proc, bootVars, verifyVars, apiVars, envKey, chatVars, finalizedAt, conversation, analystData, managerData, report, caseNumber, outbox>>

\* Mutant of MailReturns: the complete response is sent whatever sendMail did.
MailReturnsUnawaited(r) ==
    /\ proc = "listening"
    /\ pc[r] = "mail"
    /\ \E ok \in BOOLEAN :
        /\ ext' = [ext EXCEPT ![r].notify = IF ok THEN "ok" ELSE "failed"]
        /\ outbox' = IF ok
                     THEN outbox \cup {Email(report[r], caseNumber[r], conversation[r])}
                     ELSE outbox
        /\ Respond(r, Complete(caseNumber[r], report[r]))
    /\ UNCHANGED <<proc, bootVars, verifyVars, apiVars, envKey, chatVars, finalizedAt, conversation, analystData, managerData, report, caseNumber, calls, store>>

\* Mutant of MailReturns: a failed mail deletes the document again.
MailReturnsRollback(r) ==
    /\ proc = "listening"
    /\ pc[r] = "mail"
    /\ \E ok \in BOOLEAN :
        IF ok
        THEN /\ ext' = [ext EXCEPT ![r].notify = "ok"]
             /\ outbox' = outbox \cup {Email(report[r], caseNumber[r], conversation[r])}
             /\ Respond(r, Complete(caseNumber[r], report[r]))
             /\ UNCHANGED store
        ELSE /\ ext' = [ext EXCEPT ![r].notify = "failed"]
             /\ store' = [k \in (DOMAIN store) \ {caseNumber[r]} |-> store[k]]
             /\ Respond(r, InternalError)
             /\ UNCHANGED outbox
    /\ UNCHANGED <<proc, bootVars, verifyVars, apiVars, envKey, chatVars, finalizedAt, conversation, analystData, managerData, report, caseNumber, calls>>

\* sendMail() settles: lines 278-279, or the catch block.
MailReturns(r) ==
    /\ proc = "listening"
    /\ pc[r] = "mail"
    /\ \E ok \in BOOLEAN :
        IF ok
        THEN /\ ext' = [ext EXCEPT ![r].notify = "ok"]
             /\ outbox' = outbox \cup {Email(report[r], caseNumber[r], conversation[r])}
             /\ Respond(r, Complete(caseNumber[r], report[r]))
        ELSE /\ ext' = [ext EXCEPT ![r].notify = "failed"]
             /\ Respond(r, InternalError)
             /\ UNCHANGED outbox
    /\ UNCHANGED <<proc, bootVars, verifyVars, apiVars, envKey, chatVars, finalizedAt, conversation, analystData, managerData, report, caseNumber, calls, store>>

Next ==
    \E r \in Requests :
        \/ Intake(r)
        \/ AnalystReturns(r)
        \/ ManagerReturns(r)
        \/ StoreReturns(r)
        \/ MailReturns(r)

Spec == Init /\ [][Next]_vars

\* ------------------------------------------------------- a silent provider
\* node-fetch is called without a timeout or an AbortController (lines
\* 199-203 and 228-232): when the provider never answers, the awaited promise
\* never settles and no code of the handler runs again.
AnalystHangs(r) ==
    /\ proc = "listening"
    /\ pc[r] = "analyst"
    /\ pc' = [pc EXCEPT ![r] = "analystHung"]
    /\ UNCHANGED <<proc, bootVars, verifyVars, apiVars, envKey, chatVars, conversation, analystData, managerData, report,
                   finalizedAt, caseNumber, calls, ext, response, store, outbox>>

ManagerHangs(r) ==
    /\ proc = "listening"
    /\ pc[r] = "manager"
    /\ pc' = [pc EXCEPT ![r] = "managerHung"]
    /\ UNCHANGED <<proc, bootVars, verifyVars, apiVars, envKey, chatVars, conversation, analystData, managerData, report,
                   finalizedAt, caseNumber, calls, ext, response, store, outbox>>

NextHang ==
    \E r \in Requests :
        \/ Intake(r)
        \/ AnalystReturns(r)
        \/ AnalystHangs(r)
        \/ ManagerReturns(r)
        \/ ManagerHangs(r)
        \/ StoreReturns(r)
        \/ MailReturns(r)

\* The event loop resumes a handler whenever the promise it awaits settles.
FairHang ==
    \A r \in Requests :
        /\ WF_vars(AnalystReturns(r))
        /\ WF_vars(ManagerReturns(r))
        /\ WF_vars(StoreReturns(r))
        /\ WF_vars(MailReturns(r))

SpecHang == Init /\ [][NextHang]_vars /\ FairHang

\* ------------------------------------------------------------------ /chat
\* req.body.message of the /chat requests: absent, "", a number, texts.
ChatMessages ==
    {Undefined, Str(<<>>), Num,
     Str(<<"a", "u", "t", "o", "m", "a", "t", "i", "o", "n", " ", "w", "o", "r", "k", "f", "l", "o", "w">>),
     Str(<<"W", "o", "r", "k", "f", "l", "o", "w", " ", " ", "A", "U", "T", "O", "M", "A", "T", "I", "O", "N", " ", "a", "u", "t", "o">>),
     Str(<<" ", "p", "r", "i", "c", "i", "n", "g">>),
     Str(<<"z", "z", "z">>)}

\* What the provider call of /chat can produce.
ChatOutcomes ==
    {Failure("transport"), Failure("status"), Failure("body"), NoChoices,
     Payload(Undefined), Payload(Null), Payload(Str(<<>>)), Payload(Str(<<"answer">>))}

\* Lines 80, 86 and 163.
ChatKeyMissing == ErrorResponse(500, "OpenAI API key is not configured on the server.")
ChatBadRequest == ErrorResponse(400, "Request body must contain a \"message\" field.")
ChatFailed == ErrorResponse(500, "Failed to fetch response from AI.")

\* Line 156: the text after `||`.
ChatFallback == Str(<<"Sorry, I couldn't get a proper response. Please try again.">>)

\* Line 159.
ChatReply(reply) ==
    [status |-> 200, kind |-> "reply", error |-> "", reply |-> reply,
     caseNumber |-> NoCaseNumber, report |-> NoReport]

ChatRespond(c, resp) ==
    /\ chatResponse' = [chatResponse EXCEPT ![c] = resp]
    /\ chatPc' = [chatPc EXCEPT ![c] = "done"]

intakeVars ==
    <<pc, conversation, analystData, managerData, report, finalizedAt, caseNumber,
      calls, ext, response, store, outbox>>

\* The async handler rejects outside its try block.  Express 4 does not
\* observe the promise, so no response is sent; the unhandled rejection is
\* only a warning up to Node 14 and ends the process from Node 15 on.
HandlerRejects == proc' \in {"listening", "crashed"}

\* Mutant of Chat: only an absent message is rejected (message === undefined).
ChatOnlyUndefinedRejected(c) ==
    /\ proc = "listening"
    /\ chatPc[c] = "idle"
    /\ \E message \in ChatMessages :
        /\ chatMessage' = [chatMessage EXCEPT ![c] = message]
        /\ IF ~Truthy(OPENAI_API_KEY)
           THEN /\ ChatRespond(c, ChatKeyMissing)
                /\ UNCHANGED <<proc, chatCalls, relevantSnippets>>
           ELSE IF message.t = "undefined"
           THEN /\ ChatRespond(c, ChatBadRequest)
                /\ UNCHANGED <<proc, chatCalls, relevantSnippets>>
           ELSE IF SnippetsThrow(message, qaData)
           THEN /\ chatPc' = [chatPc EXCEPT ![c] = "crashed"]
                /\ HandlerRejects
                /\ UNCHANGED <<chatCalls, chatResponse, relevantSnippets>>
           ELSE /\ relevantSnippets' = [relevantSnippets EXCEPT ![c] =
                                          getRelevantSnippets(message, qaData, DefaultCount)]
                /\ chatCalls' = [chatCalls EXCEPT ![c] = @ + 1]
                /\ chatPc' = [chatPc EXCEPT ![c] = "provider"]
                /\ UNCHANGED <<proc, chatResponse>>
    /\ UNCHANGED <<bootVars, verifyVars, apiVars, envKey, intakeVars, chatData>>

\* A /chat request arrives: lines 76-145, up to the await of the fetch.
\* getRelevantSnippets is called before the try block: when it throws, the
\* async handler rejects and no response is sent ("crashed").
Chat(c) ==
    /\ proc = "listening"
    /\ chatPc[c] = "idle"
    /\ \E message \in ChatMessages :
        /\ chatMessage' = [chatMessage EXCEPT ![c] = message]
        /\ IF ~Truthy(OPENAI_API_KEY)
           THEN /\ ChatRespond(c, ChatKeyMissing)
                /\ UNCHANGED <<proc, chatCalls, relevantSnippets>>
           ELSE IF ~Truthy(message)
           THEN /\ ChatRespond(c, ChatBadRequest)
                /\ UNCHANGED <<proc, chatCalls, relevantSnippets>>
           ELSE IF SnippetsThrow(message, qaData)
           THEN /\ chatPc' = [chatPc EXCEPT ![c] = "crashed"]
                /\ HandlerRejects
                /\ UNCHANGED <<chatCalls, chatResponse, relevantSnippets>>
           ELSE /\ relevantSnippets' = [relevantSnippets EXCEPT ![c] =
                                          getRelevantSnippets(message, qaData, DefaultCount)]
                /\ chatCalls' = [chatCalls EXCEPT ![c] = @ + 1]
                /\ chatPc' = [chatPc EXCEPT ![c] = "provider"]
                /\ UNCHANGED <<proc, chatResponse>>
    /\ UNCHANGED <<bootVars, verifyVars, apiVars, envKey, intakeVars, chatData>>

\* Mutant of ChatReturns: the reply is the content as it came, without `||`.
ChatReturnsNoFallback(c) ==
    /\ proc = "listening"
    /\ chatPc[c] = "provider"
    /\ \E o \in ChatOutcomes :
        /\ chatData' = [chatData EXCEPT ![c] = o]
        /\ IF o.result # "payload" \/ ~o.hasChoices
           THEN ChatRespond(c, ChatFailed)
           ELSE ChatRespond(c, ChatReply(o.content))
    /\ UNCHANGED <<proc, bootVars, verifyVars, apiVars, envKey, intakeVars, chatMessage, chatCalls, relevantSnippets>>

\* Mutant of ChatReturns: a failed call is repeated once.
ChatReturnsRetry(c) ==
    /\ proc = "listening"
    /\ chatPc[c] = "provider"
    /\ \E o \in ChatOutcomes :
        /\ chatData' = [chatData EXCEPT ![c] = o]
        /\ IF o.result # "payload" /\ chatCalls[c] < 2
           THEN /\ chatCalls' = [chatCalls EXCEPT ![c] = @ + 1]
                /\ UNCHANGED <<chatPc, chatResponse>>
           ELSE /\ UNCHANGED chatCalls
                /\ IF o.result # "payload" \/ ~o.hasChoices
                   THEN ChatRespond(c, ChatFailed)
                   ELSE ChatRespond(c, ChatReply(IF Truthy(o.content) THEN o.content ELSE ChatFallback))
    /\ UNCHANGED <<proc, bootVars, verifyVars, apiVars, envKey, intakeVars, chatMessage, relevantSnippets>>

\* The provider call of /chat returns: lines 147-164.
ChatReturns(c) ==
    /\ proc = "listening"
    /\ chatPc[c] = "provider"
    /\ \E o \in ChatOutcomes :
        /\ chatData' = [chatData EXCEPT ![c] = o]
        /\ IF o.result # "payload" \/ ~o.hasChoices
           THEN ChatRespond(c, ChatFailed)
           ELSE ChatRespond(c, ChatReply(IF Truthy(o.content) THEN o.content ELSE ChatFallback))
    /\ UNCHANGED <<proc, bootVars, verifyVars, apiVars, envKey, intakeVars, chatMessage, chatCalls, relevantSnippets>>

\* --------------------------------------------------------------- /api/chat
\* The variant of src/unnamed/part_000: its own process, the same environment.

\* req.body.history: absent, null, an empty array, an array of one message.
ApiHistories == {Undefined, Null, Arr(<<>>), Arr(<<"turn">>)}

ApiOutcomes ==
    {Failure("transport"), Failure("status"), Failure("body"), NoChoices,
     Payload(Str(<<"answer">>))}

\* part_000, lines 22 and 60.
ApiKeyMissing == ErrorResponse(500, "OpenAI API key is not configured on the server.")
ApiFailed == ErrorResponse(500, "Failed to fetch response from AI.")

\* part_000, line 56: res.json(data), the provider's payload as it came.
ApiData(o) ==
    [status |-> 200, kind |-> "data", error |-> "", reply |-> o.content,
     caseNumber |-> NoCaseNumber, report |-> NoReport]

\* part_000, line 34: `...history` throws a TypeError on a value that is
\* not iterable.
SpreadThrows(history) == history.t \notin {"array", "string"}

\* A /api/chat request arrives: part_000, lines 20-49, up to the await of
\* the fetch.  The spread of line 34 is outside the try block.
ApiChat ==
    /\ apiPc = "idle"
    /\ \E history \in ApiHistories :
        /\ apiHistory' = history
        /\ IF ~Truthy(envKey)
           THEN apiResponse' = ApiKeyMissing /\ apiPc' = "done"
           ELSE IF SpreadThrows(history)
           THEN apiPc' = "crashed" /\ UNCHANGED apiResponse
           ELSE apiPc' = "provider" /\ UNCHANGED apiResponse
    /\ UNCHANGED <<proc, bootVars, verifyVars, envKey, intakeVars, chatVars, apiData>>

\* The provider call of /api/chat returns: part_000, lines 51-61.
ApiReturns ==
    /\ apiPc = "provider"
    /\ \E o \in ApiOutcomes :
        /\ apiData' = o
        /\ apiResponse' = IF o.result # "payload" THEN ApiFailed ELSE ApiData(o)
        /\ apiPc' = "done"
    /\ UNCHANGED <<proc, bootVars, verifyVars, envKey, intakeVars, chatVars, apiHistory>>

\* A /chat request beside the /intake request that ranges over every input.
NextChat ==
    \/ \E c \in ChatRequests : Chat(c) \/ ChatReturns(c)
    \/ \E r \in {1} :
          \/ Intake(r)
          \/ AnalystReturns(r)
          \/ ManagerReturns(r)
          \/ StoreReturns(r)
          \/ MailReturns(r)

SpecChat == Init /\ [][NextChat]_vars

\* One request to each of the three endpoints.
NextAnswers ==
    \/ \E c \in ChatRequests : Chat(c) \/ ChatReturns(c)
    \/ ApiChat
    \/ ApiReturns
    \/ \E r \in {2} :
          \/ Intake(r)
          \/ AnalystReturns(r)
          \/ ManagerReturns(r)
          \/ StoreReturns(r)
          \/ MailReturns(r)

SpecAnswers == Init /\ [][NextAnswers]_vars

\* ---------------------------------------------------------------- startup
\* The process has been started and has not run a line of the script.
InitBoot ==
    /\ envKey \in {Undefined, Str(<<"sk-env">>)}
    /\ emailEnv \in BOOLEAN
    /\ devSecret = Undefined
    /\ proc = "starting"
    /\ firebaseApp = FALSE
    /\ qaData = QaEmpty
    /\ InitRequests

\* Line 68.
HomeText == "Sakis Athan AI Chatbot Server with RAG and Intake is running!"

\* The script runs from its first line to app.listen (lines 1-297).
\* initializeApp() is inside a try block (lines 31-38), admin.firestore() of
\* line 40 is not, and it throws when there is no default app: the script
\* ends there with an uncaught exception.  createTransport (lines 44-50)
\* takes the credentials or their placeholders as they are.  Loading the
\* knowledge base is inside a try block (lines 54-61).
Start ==
    /\ proc = "starting"
    /\ \E initialized \in BOOLEAN, file \in KbFiles :
        /\ firebaseApp' = initialized
        /\ IF ~initialized
           THEN proc' = "crashed" /\ UNCHANGED qaData
           ELSE proc' = "listening" /\ qaData' = file.data
    /\ UNCHANGED <<envKey, emailEnv, homeResponse, intakeVars, chatVars, apiVars, verifyVars>>

\* GET / (lines 67-69).
Home ==
    /\ proc = "listening"
    /\ homeResponse = ""
    /\ homeResponse' = HomeText
    /\ UNCHANGED <<proc, envKey, firebaseApp, emailEnv, qaData, intakeVars, chatVars, apiVars, verifyVars>>

NextBoot ==
    \/ Start
    \/ Home
    \/ \E c \in ChatRequests : Chat(c) \/ ChatReturns(c)

SpecBoot == InitBoot /\ [][NextBoot]_vars

\* ------------------------------------------------------- /verify-developer
\* The endpoint of the latest variant, which is not among the sources.

\* The shared secret of the environment: absent or set.
DevSecrets == {Undefined, Str(<<"s3cret">>)}

\* req.body.password: absent, empty, the secret, the secret in another
\* case, another text.
Passwords ==
    {Undefined, Str(<<>>), Str(<<"s3cret">>), Str(<<"S3CRET">>), Str(<<"guess">>)}

VerifyAnswer(status) == [status |-> status, success |-> (status = 200)]

\* The statuses the endpoint may answer with.  Where two of the listed
\* conditions hold at once (no secret and no password; an empty password)
\* the order of the checks is not stated, and either answer is possible.
VerifyStatuses(secret, password) ==
    IF ~Truthy(secret)
    THEN IF ~Truthy(password) THEN {500, 400} ELSE {500}
    ELSE IF password.t = "undefined" THEN {400}
    ELSE IF ~Truthy(password) THEN {400, 401}
    ELSE IF password = secret THEN {200}
    ELSE {401}

\* Mutant of VerifyDeveloper: the comparison ignores the case of letters.
VerifyDeveloperIgnoresCase(v) ==
    /\ verifyPc[v] = "idle"
    /\ \E password \in Passwords :
        /\ verifyPassword' = [verifyPassword EXCEPT ![v] = password]
        /\ \E status \in VerifyStatuses(devSecret, Str(ToLowerCase(password.v))) :
              verifyResponse' = [verifyResponse EXCEPT ![v] = VerifyAnswer(status)]
        /\ verifyPc' = [verifyPc EXCEPT ![v] = "done"]
    /\ UNCHANGED <<proc, bootVars, devSecret, apiVars, envKey, intakeVars, chatVars>>

\* POST /verify-developer.
VerifyDeveloper(v) ==
    /\ verifyPc[v] = "idle"
    /\ \E password \in Passwords :
        /\ verifyPassword' = [verifyPassword EXCEPT ![v] = password]
        /\ \E status \in VerifyStatuses(devSecret, password) :
              verifyResponse' = [verifyResponse EXCEPT ![v] = VerifyAnswer(status)]
        /\ verifyPc' = [verifyPc EXCEPT ![v] = "done"]
    /\ UNCHANGED <<proc, bootVars, devSecret, apiVars, envKey, intakeVars, chatVars>>

InitVerify ==
    /\ envKey \in {Undefined, Str(<<"sk-env">>)}
    /\ devSecret \in DevSecrets
    /\ InitListening

NextVerify ==
    \/ \E v \in VerifyRequests : VerifyDeveloper(v)
    \/ Home

SpecVerify == InitVerify /\ [][NextVerify]_vars

\* ------------------------------------------------------------------ claims

\* C1: a 200 "complete" response carries the request's case number, a document
\* exists in the store under that case number (the one this request wrote,
\* unless another request wrote the same key), the request made exactly one
\* store write and exactly one notification attempt, and both had succeeded
\* before the response was sent.
C1_CompleteAfterStoreAndMail ==
    \A r \in Requests :
        response[r].kind = "complete" =>
            /\ response[r].status = 200
            /\ response[r].caseNumber = caseNumber[r]
            /\ caseNumber[r] \in DOMAIN store
            /\ \/ store[caseNumber[r]] = CaseRecord(report[r], caseNumber[r], conversation[r])
               \/ \E q \in Requests \ {r} :
                     caseNumber[q] = caseNumber[r] /\ ext[q].store = "ok"
            /\ calls[r].store = 1 /\ ext[r].store = "ok"
            /\ calls[r].notify = 1 /\ ext[r].notify = "ok"

C1_Witness ==
    \E r \in Requests :
        /\ response[r].kind = "complete"
        /\ store[caseNumber[r]] = CaseRecord(report[r], caseNumber[r], conversation[r])

\* C2 (as claimed): a Manager output that parses but lacks, or has empty, one
\* of the five report fields leads to a 500 with no store write and no
\* notification.
C2_MissingFieldRejected ==
    \A r \in Requests :
        ( /\ managerData[r].result = "payload"
          /\ managerData[r].hasChoices
          /\ JSONParse(managerData[r].content).ok
          /\ \E k \in ReportKeys :
                Get(JSONParse(managerData[r].content).value, k).v = <<>> )
        => /\ response[r].status = 500
           /\ calls[r].store = 0
           /\ calls[r].notify = 0

\* C3: when the Analyst call yields a reply text, the request takes the
\* finalize path (the Manager is called) exactly when the marker occurs at some
\* position of the text; otherwise the response is 200 in-progress with the
\* text unchanged.
C3_FinalizeIffMarker ==
    \A r \in Requests :
        ( /\ analystData[r].result = "payload"
          /\ analystData[r].hasChoices
          /\ analystData[r].content.t = "string" )
        => LET text == analystData[r].content.v
               marked == \E i \in 1..Len(text) : text[i] = "[END_OF_INTAKE]"
           IN /\ marked <=> calls[r].manager = 1
              /\ ~marked => response[r] = InProgress(Str(text))
              /\ marked => response[r].kind # "in-progress"

C3_Witness ==
    \E r \in Requests :
        /\ analystData[r].content = Str(<<"[END_OF_INTAKE]", "question">>)
        /\ pc[r] = "manager"

\* C4: the Manager call, the store write and the notification happen in a
\* request only after its Analyst reply contained the marker, and the step
\* that sends an in-progress response leaves store and notifier unchanged.
C4_NoMarkerNoSideEffects ==
    /\ [](\A r \in Requests :
            (\A i \in 1..Len(analystData[r].content.v) :
                analystData[r].content.v[i] # "[END_OF_INTAKE]")
            => /\ calls[r].manager = 0
               /\ calls[r].store = 0
               /\ calls[r].notify = 0)
    /\ [][\A r \in Requests :
            (response[r].kind # "in-progress" /\ response'[r].kind = "in-progress")
            => /\ store' = store
               /\ outbox' = outbox
               /\ calls'[r] = [analyst |-> 1, manager |-> 0, store |-> 0, notify |-> 0]]_vars

C4_Witness ==
    \E r \in Requests :
        /\ response[r].kind = "in-progress"
        /\ response[r].reply = Str(<<"question">>)
        /\ store # << >>

\* C5 (as claimed): a body without a conversation, with a non-array, an empty
\* array or an array whose elements are not messages is answered 400 and no
\* external call is made for it.
C5_MalformedBodyRejected ==
    \A r \in Requests :
        ( /\ pc[r] # "idle"
          /\ \/ conversation[r].t # "array"
             \/ Len(conversation[r].items) = 0
             \/ \E i \in 1..Len(conversation[r].items) :
                    conversation[r].items[i].t # "object" )
        => /\ response[r].status = 400
           /\ calls[r] = [analyst |-> 0, manager |-> 0, store |-> 0, notify |-> 0]

\* C6 (as claimed): a conversation of messages whose last message is not
\* authored by the user is answered 400 before any provider is contacted.
C6_LastMessageMustBeUser ==
    \A r \in Requests :
        ( /\ pc[r] # "idle"
          /\ conversation[r].t = "array"
          /\ Len(conversation[r].items) > 0
          /\ \A i \in 1..Len(conversation[r].items) : conversation[r].items[i].t = "object"
          /\ conversation[r].items[Len(conversation[r].items)].role # Str(<<"user">>) )
        => /\ response[r].status = 400
           /\ calls[r].analyst = 0

\* C7 (as claimed): a conversation with fewer than three analyst turns never
\* gets a complete response and never writes a case record.
C7_NoEarlyCompletion ==
    \A r \in Requests :
        (pc[r] # "idle" /\ AnalystTurns(conversation[r]) < 3)
        => /\ response[r].kind # "complete"
           /\ calls[r].store = 0

\* C8 (as claimed): when the Analyst or the Manager call fails (transport
\* error, non-success status, or a payload without choices or message
\* content), the request is answered 500 and makes no store write and no
\* notification.
C8_ProviderFailureNoCommit ==
    \A r \in Requests :
        ( \/ analystData[r].result \in {"transport", "status", "body"}
          \/ analystData[r].result = "payload"
                /\ (~analystData[r].hasChoices \/ analystData[r].content.t # "string")
          \/ managerData[r].result \in {"transport", "status", "body"}
          \/ managerData[r].result = "payload"
                /\ (~managerData[r].hasChoices \/ managerData[r].content.t # "string") )
        => /\ response[r].status = 500
           /\ calls[r].store = 0
           /\ calls[r].notify = 0

\* C9 (as claimed): a Manager text that does not parse as one JSON object is
\* answered 500, creates no case record and attempts no notification.
C9_NonObjectReportRejected ==
    \A r \in Requests :
        ( /\ managerData[r].result = "payload"
          /\ managerData[r].hasChoices
          /\ managerData[r].content.t = "string"
          /\ managerData[r].content.text.form # "object" )
        => /\ response[r].status = 500
           /\ calls[r].store = 0
           /\ calls[r].notify = 0
           /\ caseNumber[r] \notin DOMAIN store

\* C10: when the mail fails after the store write succeeded, the response is
\* the 500 of the catch block, never a complete one, and the document stays in
\* the store under the request's case number (the one this request wrote,
\* unless another request wrote the same key).
C10_MailFailureKeepsRecord ==
    \A r \in Requests :
        (ext[r].store = "ok" /\ ext[r].notify = "failed")
        => /\ response[r] = InternalError
           /\ caseNumber[r] \in DOMAIN store
           /\ \/ store[caseNumber[r]] = CaseRecord(report[r], caseNumber[r], conversation[r])
              \/ \E q \in Requests \ {r} :
                    caseNumber[q] = caseNumber[r] /\ ext[q].store = "ok"

C10_Witness ==
    \E r \in Requests :
        /\ ext[r].store = "ok"
        /\ ext[r].notify = "failed"
        /\ pc[r] = "done"
        /\ store[caseNumber[r]] = CaseRecord(report[r], caseNumber[r], conversation[r])

\* C11: a request hands a mail to the notifier only after its own store write
\* has succeeded; when the store write fails no mail is attempted and the
\* response is the 500 of the catch block.
C11_NotifyOnlyAfterStore ==
    \A r \in Requests :
        /\ calls[r].notify > 0 => ext[r].store = "ok"
        /\ ext[r].store = "failed"
              => /\ calls[r].notify = 0
                 /\ ext[r].notify = "none"
                 /\ response[r] = InternalError

C11_Witness ==
    \E r \in Requests :
        /\ ext[r].store = "failed"
        /\ pc[r] = "done"
        /\ \E q \in Requests : calls[q].notify = 1

\* C12 (as claimed): a document, once in the store, is never overwritten or
\* deleted: every step leaves every existing document as it is.
C12_RecordsNeverOverwritten ==
    [][\A k \in DOMAIN store : k \in DOMAIN store' /\ store'[k] = store[k]]_vars

\* C13 (as claimed): two requests that finalize the same transcript with the
\* same report and both complete have two distinct case numbers and two
\* documents in the store.
C13_TwoCommitsTwoRecords ==
    \A r, q \in Requests :
        ( /\ r # q
          /\ response[r].kind = "complete"
          /\ response[q].kind = "complete"
          /\ conversation[r] = conversation[q]
          /\ report[r] = report[q] )
        => /\ caseNumber[r] # caseNumber[q]
           /\ {caseNumber[r], caseNumber[q]} \subseteq DOMAIN store
           /\ Cardinality(DOMAIN store) = 2

\* C14 (as claimed): for two requests with different conversations, the
\* document a request wrote stays the one it wrote, with its own report and
\* transcript, and its complete response carries its own case number and
\* report, whatever the other request does.
C14_RequestsIndependent ==
    \A r, q \in Requests :
        ( /\ r # q
          /\ pc[r] # "idle"
          /\ pc[q] # "idle"
          /\ conversation[r] # conversation[q]
          /\ ext[r].store = "ok" )
        => /\ caseNumber[r] \in DOMAIN store
           /\ store[caseNumber[r]] = CaseRecord(report[r], caseNumber[r], conversation[r])
           /\ response[r].kind = "complete"
                 => response[r] = Complete(caseNumber[r], report[r])

\* C15: nothing is retried: whatever the outcomes, an /intake request makes at
\* most one Analyst call, one Manager call, one store write and one
\* notification attempt, and a /chat request at most one provider call.
C15_NoRetry ==
    /\ \A r \in Requests :
          /\ calls[r].analyst <= 1
          /\ calls[r].manager <= 1
          /\ calls[r].store <= 1
          /\ calls[r].notify <= 1
    /\ \A c \in ChatRequests : chatCalls[c] <= 1

C15_Witness ==
    /\ \E r \in Requests :
          /\ managerData[r].result = "status"
          /\ pc[r] = "done"
          /\ calls[r] = [analyst |-> 1, manager |-> 1, store |-> 0, notify |-> 0]
    /\ \E c \in ChatRequests :
          /\ chatData[c].result = "transport"
          /\ chatPc[c] = "done"
          /\ chatCalls[c] = 1

\* C16 (as claimed): every /intake request that was received eventually gets
\* a response, also when the provider never answers a call.
C16_EveryRequestAnswered ==
    \A r \in Requests : (pc[r] # "idle") ~> (pc[r] = "done")

\* C17 (as claimed): the interviewDate of every report that is committed to
\* the store or returned in a complete response is the timestamp the server
\* computed at finalize time.
C17_InterviewDateServerStamped ==
    \A r \in Requests :
        ( /\ report[r].t = "object"
          /\ ext[r].store = "ok" \/ response[r].kind = "complete" )
        => /\ Get(report[r], "interviewDate") = Str(InterviewStamp(finalizedAt[r]))
           /\ response[r].kind = "complete"
                 => Get(response[r].report, "interviewDate") = Str(InterviewStamp(finalizedAt[r]))

C19_CaseNumberFormat ==
    \A r \in Requests :
        caseNumber[r] # NoCaseNumber =>
            LET cn == caseNumber[r]
                digit(ch) == CHOOSE n \in 0..9 : DigitChars[n + 1] = ch
                isDigit(ch) == \E n \in 0..9 : DigitChars[n + 1] = ch
                isUpper(ch) == \E j \in 1..26 : UpperLetters[j] = ch
            IN /\ Len(cn) = 18
               /\ SubSeq(cn, 1, 3) = <<"S", "A", "-">>
               /\ \A i \in 4..11 : isDigit(cn[i])
               /\ 1000 * digit(cn[4]) + 100 * digit(cn[5]) + 10 * digit(cn[6]) + digit(cn[7])
                     = finalizedAt[r].year
               /\ 10 * digit(cn[8]) + digit(cn[9]) = finalizedAt[r].month + 1
               /\ 10 * digit(cn[10]) + digit(cn[11]) = finalizedAt[r].date
               /\ cn[12] = "-"
               /\ \A i \in 13..18 : isDigit(cn[i]) \/ isUpper(cn[i])

\* C20: a /chat body without a message, or with an empty one, is answered 400
\* and no provider call is made; with a message, a provider call that returns
\* a completion payload is answered 200 with a reply, and one that fails in
\* transport or with a non-success status is answered 500 with an error.
C20_ChatStatuses ==
    \A c \in ChatRequests :
        /\ (chatPc[c] # "idle" /\ (chatMessage[c].t = "undefined" \/ chatMessage[c] = Str(<<>>)))
              => /\ chatResponse[c].status = 400
                 /\ chatResponse[c].kind = "error"
                 /\ chatCalls[c] = 0
        /\ (chatData[c].result = "payload" /\ chatData[c].hasChoices)
              => /\ chatResponse[c].status = 200
                 /\ chatResponse[c].kind = "reply"
                 /\ chatResponse[c].reply.t = "string"
        /\ chatData[c].result \in {"transport", "status"}
              => /\ chatResponse[c].status = 500
                 /\ chatResponse[c].kind = "error"
                 /\ chatResponse[c].error = "Failed to fetch response from AI."

C20_Witness ==
    \E c \in ChatRequests :
        /\ chatMessage[c] = Str(<<>>)
        /\ chatPc[c] = "done"
        /\ chatResponse[c].status = 400

\* C21 (as claimed): when process.env.OPENAI_API_KEY is not set, every /chat
\* and /intake request that was received is answered 500, and it makes no
\* provider call, no store write and no notification.
C21_KeyMissingRejected ==
    envKey = Undefined
    => /\ \A c \in ChatRequests :
            chatPc[c] # "idle"
            => /\ chatResponse[c].status = 500
               /\ chatCalls[c] = 0
       /\ \A r \in {1} :
            pc[r] # "idle"
            => /\ response[r].status = 500
               /\ calls[r] = [analyst |-> 0, manager |-> 0, store |-> 0, notify |-> 0]

\* C22: once an external call of a request has failed (the provider call was
\* rejected, answered with a non-success status or with a body that is not
\* JSON; set() or sendMail() rejected), the request is answered 500 with the
\* one fixed body of its endpoint, whatever the cause was: the body of any
\* two failures on the same endpoint is therefore the same, and it carries
\* no reply, case number or report.
C22_FailuresAnsweredAlike ==
    /\ \A r \in {1} :
        ( \/ analystData[r].result \in {"transport", "status", "body"}
          \/ managerData[r].result \in {"transport", "status", "body"}
          \/ ext[r].store = "failed"
          \/ ext[r].notify = "failed" )
        => response[r] =
             [status |-> 500, kind |-> "error",
              error |-> "An internal error occurred while processing your request.",
              reply |-> Undefined, caseNumber |-> NoCaseNumber, report |-> NoReport]
    /\ \A c \in ChatRequests :
        chatData[c].result \in {"transport", "status", "body"}
        => chatResponse[c] =
             [status |-> 500, kind |-> "error",
              error |-> "Failed to fetch response from AI.",
              reply |-> Undefined, caseNumber |-> NoCaseNumber, report |-> NoReport]

\* A notifier failure on /intake beside a provider failure on /chat.
C22_Witness ==
    /\ ext[1].notify = "failed"
    /\ pc[1] = "done"
    /\ \E c \in ChatRequests :
          chatData[c].result = "status" /\ chatPc[c] = "done"

\* C23 (as claimed): whatever is wrong with the configuration (the store
\* cannot be initialised, the mail credentials are absent, the knowledge
\* base cannot be loaded), the step that runs the script ends with the
\* server listening, never with the process gone.
C23_StartupNeverCrashes ==
    [][(proc = "starting" /\ proc' # "starting") => proc' = "listening"]_vars

\* C24: what getRelevantSnippets(message, qaData) returned for a /chat
\* request has at most 7 entries; each is an entry of the knowledge base and
\* carries as score the number of words of the lower-cased message, split at
\* whitespace, that occur in its lower-cased question; every score is at
\* least 1; the scores never increase along the result, and of two entries
\* with the same score the one that comes first in the knowledge base comes
\* first.
C24_SnippetsRankedAndCut ==
    \A c \in ChatRequests :
        chatCalls[c] = 1
        => LET words == Split(ToLowerCase(chatMessage[c].v))
               data == qaData.items
               res == relevantSnippets[c]
               Count(q) == Cardinality({w \in 1..Len(words) :
                              \E p \in 1..(Len(q) - Len(words[w]) + 1) :
                                  SubSeq(ToLowerCase(q), p, p + Len(words[w]) - 1) = words[w]})
               Pos(x) == CHOOSE k \in 1..Len(data) : data[k].Q = x.Q /\ data[k].A = x.A
           IN /\ Len(res) <= 7
              /\ \A i \in 1..Len(res) :
                    /\ \E k \in 1..Len(data) : data[k].Q = res[i].Q /\ data[k].A = res[i].A
                    /\ res[i].score = Count(res[i].Q.v)
                    /\ res[i].score >= 1
              /\ \A i, j \in 1..Len(res) :
                    i < j => /\ res[i].score >= res[j].score
                             /\ res[i].score = res[j].score => Pos(res[i]) < Pos(res[j])

\* Seven entries came back, with a tie and with different scores, a later
\* entry of the knowledge base ahead of an earlier one, and more than seven
\* entries of the knowledge base contain a word of the message.
C24_Witness ==
    \E c \in ChatRequests :
        /\ chatCalls[c] = 1
        /\ Len(relevantSnippets[c]) = 7
        /\ relevantSnippets[c][1].score > relevantSnippets[c][7].score
        /\ relevantSnippets[c][1].score = relevantSnippets[c][2].score
        /\ relevantSnippets[c][2].A = Str(<<"a5">>)
        /\ relevantSnippets[c][4].A = Str(<<"a3">>)
        /\ Len(qaData.items) > 7

\* C25: a /verify-developer request is answered 200 with success exactly when
\* a secret is configured and the password equals it character for character;
\* with a secret configured, a password that is a different non-empty text is
\* answered 401 and an absent password 400; without a secret a request that
\* carries a password is answered 500 (one that carries none, 400 or 500);
\* every answer other than 200 has success false.
C25_VerifyDeveloperStatuses ==
    \A v \in VerifyRequests :
        verifyPc[v] = "done"
        => LET password == verifyPassword[v]
               configured == devSecret.t = "string" /\ devSecret.v # <<>>
               answer == verifyResponse[v]
           IN /\ (answer.status = 200) <=> (configured /\ password = devSecret)
              /\ answer.success <=> (answer.status = 200)
              /\ (configured /\ password.t = "string" /\ password.v # <<>> /\ password # devSecret)
                    => answer.status = 401
              /\ (configured /\ password.t = "undefined") => answer.status = 400
              /\ (~configured /\ password.t = "string" /\ password.v # <<>>)
                    => answer.status = 500
              /\ ~configured => answer.status \in {400, 500}

\* One request was let in, another was turned away although its password
\* differs from the secret in case only.
C25_Witness ==
    /\ verifyPc["v1"] = "done" /\ verifyPc["v2"] = "done"
    /\ verifyResponse["v1"] = [status |-> 200, success |-> TRUE]
    /\ verifyPassword["v2"] = Str(<<"S3CRET">>)
    /\ verifyResponse["v2"].status = 401

\* C26 (as claimed): a handler of /chat, /api/chat or /intake that is no
\* longer waiting for an external call has sent a response, and a response
\* that was sent is never followed by another one.
C26_ExactlyOneResponse ==
    [][ /\ \A c \in ChatRequests :
            /\ chatPc'[c] \notin {"idle", "provider"} => chatResponse'[c].status # 0
            /\ chatResponse[c].status # 0 => chatResponse'[c] = chatResponse[c]
        /\ apiPc' \notin {"idle", "provider"} => apiResponse'.status # 0
        /\ apiResponse.status # 0 => apiResponse' = apiResponse
        /\ \A r \in {2} :
            /\ pc'[r] \notin {"idle", "analyst", "manager", "store", "mail"}
                  => response'[r].status # 0
            /\ response[r].status # 0 => response'[r] = response[r]
      ]_vars

\* C27: the case number of a complete response is the one the handler
\* generated; a document is stored under it as key and holds it in its
\* caseNumber field, and the outbox holds a notification for the request's
\* report that carries it in the subject and in the body.
C27_OneCaseNumberThroughout ==
    \A r \in Requests :
        response[r].kind = "complete"
        => LET cn == response[r].caseNumber
           IN /\ cn = caseNumber[r]
              /\ cn \in DOMAIN store
              /\ store[cn]["caseNumber"] = [t |-> "string", v |-> cn]
              /\ \E m \in outbox :
                    /\ m.subject.caseNumber = cn
                    /\ m.html.caseNumber = cn
                    /\ m.subject.projectName = Interp(Get(report[r], "projectName"))

\* A request completed whose report brought a caseNumber of its own, while
\* the other request completed under another case number.
C27_Witness ==
    /\ response[1].kind = "complete"
    /\ "caseNumber" \in DOMAIN report[1].fields
    /\ report[1].fields["caseNumber"].v # response[1].caseNumber
    /\ response[2].kind = "complete"
    /\ response[2].caseNumber # response[1].caseNumber

\* C28: the reply of every 200 response of /chat is a non-empty string; when
\* the provider's payload has a first choice without message content
\* (undefined, null or ""), the reply is the fixed fallback text.  On
\* /intake an Analyst payload whose content is undefined or null is answered
\* 500, and the reply of an in-progress response is always a string.
C28_ChatFallbackReply ==
    /\ \A c \in ChatRequests :
        /\ chatResponse[c].status = 200
              => chatResponse[c].reply.t = "string" /\ chatResponse[c].reply.v # <<>>
        /\ ( /\ chatData[c].result = "payload" /\ chatData[c].hasChoices
             /\ \/ chatData[c].content.t \in {"undefined", "null"}
                \/ chatData[c].content = [t |-> "string", v |-> <<>>] )
              => chatResponse[c].reply =
                    [t |-> "string",
                     v |-> <<"Sorry, I couldn't get a proper response. Please try again.">>]
    /\ \A r \in {1} :
        /\ ( /\ analystData[r].result = "payload" /\ analystData[r].hasChoices
             /\ analystData[r].content.t \in {"undefined", "null"} )
              => response[r].status = 500 /\ response[r].kind = "error"
        /\ response[r].kind = "in-progress" => response[r].reply.t = "string"

\* The same payload, a first choice without content, on both endpoints.
C28_Witness ==
    /\ \E c \in ChatRequests :
          /\ chatData[c] = [result |-> "payload", hasChoices |-> TRUE, content |-> Undefined]
          /\ chatResponse[c].status = 200
    /\ analystData[1] = [result |-> "payload", hasChoices |-> TRUE, content |-> Undefined]
    /\ response[1].status = 500

====
